---------------------------- MODULE Spec2Model ----------------------------
(***************************************************************************)
(* A model of the voxel crate: the 16-bit voxel codec (voxel.rs), the      *)
(* run-length chunk store (storage.rs), and the SDF editing session        *)
(* (edit.rs).                                                              *)
(*                                                                         *)
(* f32 distances are modelled as exact rationals with the fixed            *)
(* denominator MAX_VALUE (1023): the integer d stands for d / 1023.  The   *)
(* voxel decoding (511.5 - code) / 511.5 is then exactly MAX_VALUE -       *)
(* 2 * code, and the extremes -1.0 and 1.0 are -1023 and 1023.             *)
(***************************************************************************)
EXTENDS Integers, Sequences, FiniteSets, TLC

VARIABLES
    raw,        \* codec harness: the dense buffer handed to ChunkData::from
    data,       \* codec harness: the ChunkData (sequence of u16 words)
    expanded,   \* codec harness: the result of ChunkData::expand
    pc,         \* codec harness: "input", "encoded", "air", "expanded", "air_expanded", "idle"
    vox,        \* voxel harness: a Voxel (its raw u16)
    arg,        \* voxel harness: the f32 handed to with_value_f32
    fl,         \* voxel harness: the f32 obtained from f32::from(voxel)
    res,        \* voxel harness: the Voxel returned by with_value_f32
    vop,        \* voxel harness: the last operation: "new", "f32", "with", "store", "panic", "idle"
    chunk_map,  \* ChunkMap: ChunkPosition -> Entity, for the chunks that exist
    world,      \* the ChunkData component of every chunk entity
    modified,   \* per session: ChunkModifier.modified, ChunkPosition -> ModifiedChunk
    chunks,     \* per session: ChunkModifier.chunks, the dense buffers
    getter,     \* per session: the entities chunks_getter was called with, in order
    calls,      \* per session: the apply_sdf calls made so far, in order
    commands,   \* the batches of signals that ChunkModifier::apply queued, in order
    op,         \* the last operation: [kind, session]
    menu,       \* the edits the callers may ask for
    positions,  \* the ChunkPosition component of every chunk entity
    applied,    \* the number of batches of commands the world has applied
    seen,       \* per session: for each touched chunk, the value of applied
                \* when the session materialized it
    mesh        \* the padded grids that generate_chunk built, per chunk position

codec_vars == <<raw, data, expanded, pc>>
voxel_vars == <<vox, arg, fl, res, vop>>
edit_vars == <<chunk_map, world, modified, chunks, getter, calls, commands, op, menu,
               positions, applied, seen, mesh>>
vars == <<raw, data, expanded, pc, vox, arg, fl, res, vop,
          chunk_map, world, modified, chunks, getter, calls, commands, op, menu,
          positions, applied, seen, mesh>>

(***************************************************************************)
(* Program constants                                                       *)
(***************************************************************************)
MATERIAL_BITS == 6
VALUE_BITS == 10
CHUNK_SIDES == 20
I8_MIN == -128
I8_MAX == 127
\* VOXEL_SIZE, 0.75 m, in quarters of a metre
VOXEL_SIZE_Q == 3

U16 == 2 ^ 16
MATERIALS == 2 ^ MATERIAL_BITS
MAX_MATERIAL == MATERIALS - 1
VALUES == 2 ^ VALUE_BITS
MAX_VALUE == VALUES - 1
VALUE_MASK == MAX_VALUE
CHUNK_VOXELS == CHUNK_SIDES * CHUNK_SIDES * CHUNK_SIDES

(***************************************************************************)
(* Bounds of the model                                                     *)
(***************************************************************************)
MaxLen == 5
MaxCalls == 2
MaxCommits == 1
MaxMeshes == 2

(***************************************************************************)
(* voxel.rs                                                                *)
(***************************************************************************)
\* Voxel::new: the panics are the caller's: see WithValueF32
Voxel_new(m, v) == (m * VALUES + (v % VALUES)) % U16

Voxel_material(x) == x \div VALUES

Voxel_value(x) == x % VALUES

AIR == Voxel_new(0, 0)

\* impl From<Voxel> for f32: (THRESHOLD_F32 - value) / THRESHOLD_F32, in 1/1023
Voxel_to_f32(x) == MAX_VALUE - 2 * Voxel_value(x)

\* f32::round (half away from zero) of n / 2, then the saturating cast to u16
RoundHalf_as_u16(n) ==
    LET r == IF n >= 0 THEN (n + 1) \div 2 ELSE -((1 - n) \div 2)
    IN  IF r < 0 THEN 0 ELSE IF r >= U16 THEN U16 - 1 ELSE r

\* the code with_value_f32 hands to Voxel::new for the f32 d / 1023:
\* (511.5 - d/1023 * 511.5).round() as u16
Code_of_f32(d) == RoundHalf_as_u16(MAX_VALUE - d)

\* with_value_f32 that forgets the material
Voxel_with_value_f32_no_material(x, d) == Voxel_new(0, Code_of_f32(d))

\* Voxel::with_value_f32 (where Voxel::new does not panic)
Voxel_with_value_f32(x, d) == Voxel_new(Voxel_material(x), Code_of_f32(d))

(***************************************************************************)
(* storage.rs: the run-length codec                                        *)
(***************************************************************************)
\* the state of the encoder's loop: (buf, last, count)
EncInit == [buf |-> <<>>, last |-> AIR, count |-> 0]

\* the flush of a run of two or more: buf.push(last); buf.push(count)
EncFlush(st) ==
    IF st.count > 1 THEN st.buf \o <<st.last, st.count>> ELSE st.buf

\* a loop body that only closes runs of three or more
EncStep_late_flush(B, k, st) ==
    IF k # 1 /\ st.last = B[k]
    THEN [st EXCEPT !.count = (st.count + 1) % U16]
    ELSE [buf |-> (IF st.count > 2 THEN st.buf \o <<st.last, st.count>> ELSE st.buf)
                      \o <<B[k]>>,
          last |-> B[k], count |-> 1]

\* a loop body that starts a new run once the open run holds two voxels
EncStep_split_runs(B, k, st) ==
    IF k # 1 /\ st.last = B[k] /\ st.count < 2
    THEN [st EXCEPT !.count = (st.count + 1) % U16]
    ELSE [buf |-> EncFlush(st) \o <<B[k]>>, last |-> B[k], count |-> 1]

\* one iteration of the encoder's loop, for the k-th voxel (1-based)
EncStep(B, k, st) ==
    IF k # 1 /\ st.last = B[k]
    THEN [st EXCEPT !.count = (st.count + 1) % U16]
    ELSE [buf |-> EncFlush(st) \o <<B[k]>>, last |-> B[k], count |-> 1]

\* the iterations lo..hi of the loop, in order (split in halves, which keeps
\* the evaluation shallow for a full chunk)
RECURSIVE EncLoop(_, _, _, _)
EncLoop(B, lo, hi, st) ==
    IF st.count >= 0 /\ lo > hi THEN st
    ELSE IF lo = hi THEN EncStep(B, lo, st)
    ELSE LET mid == (lo + hi) \div 2
         IN  EncLoop(B, mid + 1, hi, EncLoop(B, lo, mid, st))

\* an encoder without the flush after the loop
ChunkData_from_no_final_flush(B) == EncLoop(B, 1, Len(B), EncInit).buf

\* impl From<&RawChunk> for ChunkData
ChunkData_from(B) == EncFlush(EncLoop(B, 1, Len(B), EncInit))

\* ChunkData::air
ChunkData_air == <<AIR, AIR, CHUNK_VOXELS % U16>>

\* RawChunk::air (the buffer as an explicit sequence of CHUNK_VOXELS words)
RawChunk_air == [i \in 1..CHUNK_VOXELS |-> AIR] \o <<>>

\* a loop body that takes a triple only when a fourth word follows
ExpandStep_short_peek(D, st) ==
    IF st.k > Len(D) THEN st
    ELSE IF st.k + 3 <= Len(D) /\ D[st.k + 1] = D[st.k]
         THEN [k |-> st.k + 3, buf |-> st.buf \o [i \in 1..D[st.k + 2] |-> D[st.k]]]
         ELSE [k |-> st.k + 1, buf |-> Append(st.buf, D[st.k])]

\* one iteration of the decoder's loop, from the state (k, buf) with k the
\* next word (1-based); no iteration is left once k has passed the last word
ExpandStep(D, st) ==
    IF st.k > Len(D) THEN st
    ELSE IF st.k + 2 <= Len(D) /\ D[st.k + 1] = D[st.k]
         THEN [k |-> st.k + 3, buf |-> st.buf \o [i \in 1..D[st.k + 2] |-> D[st.k]]]
         ELSE [k |-> st.k + 1, buf |-> Append(st.buf, D[st.k])]

\* n iterations of the decoder's loop, in order (split in halves, which keeps
\* the evaluation shallow for a long stream)
RECURSIVE ExpandLoop(_, _, _)
ExpandLoop(D, st, n) ==
    IF st.k >= 0 /\ n <= 0 THEN st
    ELSE IF n = 1 THEN ExpandStep(D, st)
    ELSE ExpandLoop(D, ExpandLoop(D, st, n \div 2), n - (n \div 2))

\* ChunkData::expand: the loop ends within Len(D) iterations
ChunkData_expand(D) == ExpandLoop(D, [k |-> 1, buf |-> <<>>], Len(D)).buf

(***************************************************************************)
(* The codec harness: a dense buffer is encoded, then expanded             *)
(***************************************************************************)
\* raw voxel values: air, values equal to small run counts, and one with a material
Words == {AIR, 2, 3, Voxel_new(1, 3)}

RECURSIVE SeqsUpTo(_, _)
SeqsUpTo(S, n) ==
    IF n = 0 THEN {<<>>}
    ELSE LET shorter == SeqsUpTo(S, n - 1)
         IN  shorter \cup {Append(s, w) : s \in {t \in shorter : Len(t) = n - 1}, w \in S}

\* the input of test_rle: 10 x 12, 0, 8 x 29, 1
TestRleInput ==
    [i \in 1..20 |-> IF i <= 10 THEN Voxel_new(0, 12)
                     ELSE IF i = 11 THEN Voxel_new(0, 0)
                     ELSE IF i <= 19 THEN Voxel_new(0, 29)
                     ELSE Voxel_new(0, 1)]

Buffers == SeqsUpTo(Words, MaxLen) \cup {RawChunk_air, TestRleInput}

CodecIdle == raw = <<>> /\ data = <<>> /\ expanded = <<>> /\ pc = "idle"
VoxelIdle == vox = AIR /\ arg = 0 /\ fl = 0 /\ res = AIR /\ vop = "idle"
EditIdle ==
    /\ chunk_map = <<>> /\ world = <<>> /\ modified = <<>> /\ chunks = <<>>
    /\ getter = <<>> /\ calls = <<>> /\ commands = <<>>
    /\ op = [kind |-> "idle", session |-> 0] /\ menu = {}
    /\ positions = <<>> /\ applied = 0 /\ seen = <<>> /\ mesh = <<>>

InitCodec ==
    /\ raw \in Buffers
    /\ data = <<>>
    /\ expanded = <<>>
    /\ pc = "input"
    /\ VoxelIdle
    /\ EditIdle

Encode ==
    /\ pc = "input"
    /\ data' = ChunkData_from(raw)
    /\ pc' = "encoded"
    /\ UNCHANGED <<raw, expanded>>
    /\ UNCHANGED voxel_vars
    /\ UNCHANGED edit_vars

Air ==
    /\ pc = "input"
    /\ data' = ChunkData_air
    /\ pc' = "air"
    /\ UNCHANGED <<raw, expanded>>
    /\ UNCHANGED voxel_vars
    /\ UNCHANGED edit_vars

Expand ==
    /\ pc \in {"encoded", "air"}
    /\ expanded' = ChunkData_expand(data)
    /\ pc' = IF pc = "encoded" THEN "expanded" ELSE "air_expanded"
    /\ UNCHANGED <<raw, data>>
    /\ UNCHANGED voxel_vars
    /\ UNCHANGED edit_vars

NextCodec == Encode \/ Air \/ Expand

SpecCodec == InitCodec /\ [][NextCodec]_vars

(***************************************************************************)
(* The maximal runs of a buffer, and the layout of one block per run       *)
(***************************************************************************)
\* the last index of the maximal run of equal voxels that starts at i
RunEnd(B, i) ==
    LET diff == {j \in (i + 1)..Len(B) : B[j] # B[i]}
    IN  IF diff = {} THEN Len(B)
        ELSE (CHOOSE j \in diff : \A m \in diff : j <= m) - 1

\* the block of a run of L voxels of value v
Block(v, L) == IF L = 1 THEN <<v>> ELSE <<v, v, L>>

\* the blocks of the maximal runs from index i on, concatenated
RECURSIVE BlocksFrom(_, _)
BlocksFrom(B, i) ==
    IF i > Len(B) THEN <<>>
    ELSE Block(B[i], RunEnd(B, i) - i + 1) \o BlocksFrom(B, RunEnd(B, i) + 1)

\* the positions in the stream where the triples of the runs of two or more
\* start, for the runs from index i on, the first of them placed at position p
RECURSIVE TripleStartsFrom(_, _, _)
TripleStartsFrom(B, i, p) ==
    IF i > Len(B) THEN {}
    ELSE LET L == RunEnd(B, i) - i + 1
         IN  IF L = 1 THEN TripleStartsFrom(B, i + 1, p + 1)
             ELSE {p} \cup TripleStartsFrom(B, i + L, p + 3)

AllAir(B) == \A i \in 1..Len(B) : B[i] = AIR

\* C1: expanding the encoding of any dense buffer gives back that buffer,
\* element for element and of the same length.
C1_RoundTrip == pc = "expanded" => expanded = raw

\* an irregular buffer whose runs have their own counts as values went through
C1_Witness ==
    /\ pc = "expanded"
    /\ raw = <<2, 2, 3, 3, 3>>
    /\ data = <<2, 2, 2, 3, 3, 3>>
    /\ expanded = raw

\* C2 as stated: an all-air buffer of any voxel count n encodes to [AIR, AIR, n].
C2_AnySize ==
    (pc = "encoded" /\ Len(raw) >= 1 /\ AllAir(raw)) => data = <<AIR, AIR, Len(raw)>>

\* C2 amended: an all-air buffer of n voxels, 2 <= n <= 65535, encodes to the
\* three words [AIR, AIR, n]; one air voxel alone encodes to the single word
\* [AIR]; ChunkData::air() is the encoding of the full all-air chunk.
C2_AirCompact ==
    /\ (pc = "encoded" /\ AllAir(raw) /\ Len(raw) >= 2 /\ Len(raw) < U16)
            => data = <<AIR, AIR, Len(raw)>>
    /\ (pc = "encoded" /\ AllAir(raw) /\ Len(raw) = 1) => data = <<AIR>>
    /\ (pc = "encoded" /\ raw = RawChunk_air) => data = ChunkData_air
    /\ pc = "air" => data = <<AIR, AIR, CHUNK_VOXELS>>

\* the full all-air chunk was encoded
C2_Witness == pc = "encoded" /\ raw = RawChunk_air /\ Len(data) = 3

\* C3 as stated: two equal words of an encoder stream are adjacent only as
\* the first two words of a triple.
C3_NoEqualNeighbours ==
    pc = "encoded" =>
        \A i \in 1..(Len(data) - 1) :
            data[i] = data[i + 1] => i \in TripleStartsFrom(raw, 1, 1)

\* C3 amended: two equal words of an encoder stream are adjacent only as the
\* first two words of a triple, or where one of the two is the count word of
\* a triple; the value words of two consecutive blocks are never equal.
C3_EqualNeighboursAreTripleOrCount ==
    pc = "encoded" =>
        LET starts == TripleStartsFrom(raw, 1, 1)
            counts == {p + 2 : p \in starts}
        IN  \A i \in 1..(Len(data) - 1) :
                data[i] = data[i + 1] =>
                    (i \in starts \/ i \in counts \/ (i + 1) \in counts)

\* a stream with a count equal to the literal after it, and a triple before it
C3_Witness ==
    /\ pc = "encoded"
    /\ raw = <<3, 3, 2, 0, 0>>
    /\ data = <<3, 3, 2, 2, 0, 0, 2>>

\* C4: the stream is the concatenation, in buffer order, of one block per
\* maximal run: [value] for a run of one, [value, value, L] for a run of L >= 2.
C4_OneBlockPerRun ==
    /\ pc = "encoded" => data = BlocksFrom(raw, 1)
    /\ (pc = "encoded" /\ raw = TestRleInput) => data = <<12, 12, 10, 0, 29, 29, 8, 1>>

\* the buffer of test_rle was encoded
C4_Witness == pc = "encoded" /\ raw = TestRleInput /\ Len(data) = 8

(***************************************************************************)
(* The voxel harness: voxels are built, read as f32 and given new values   *)
(***************************************************************************)
F32_ONE == MAX_VALUE

Codes == {0, 1, 511, 512, MAX_VALUE - 1, MAX_VALUE}

\* 1.0, -1.0, 0.0, values next to them, and the unclamped 2.0 and -2.0
F32Args == {F32_ONE, -F32_ONE, 0, 1, F32_ONE - 1, 1 - F32_ONE, 2 * F32_ONE, -2 * F32_ONE}

InitVoxel ==
    /\ vox \in {Voxel_new(m, c) : m \in 0..MAX_MATERIAL, c \in Codes}
    /\ arg \in F32Args
    /\ fl = 0
    /\ res = AIR
    /\ vop = "new"
    /\ CodecIdle
    /\ EditIdle

\* f32::from(voxel)
ToF32 ==
    /\ vop # "panic"
    /\ fl' = Voxel_to_f32(vox)
    /\ vop' = "f32"
    /\ UNCHANGED <<vox, arg, res>>
    /\ UNCHANGED codec_vars
    /\ UNCHANGED edit_vars

\* voxel.with_value_f32(arg)
WithValueF32 ==
    /\ vop # "panic"
    /\ Code_of_f32(arg) <= MAX_VALUE
    /\ res' = Voxel_with_value_f32(vox, arg)
    /\ vop' = "with"
    /\ UNCHANGED <<vox, arg, fl>>
    /\ UNCHANGED codec_vars
    /\ UNCHANGED edit_vars

\* voxel.with_value_f32(arg) where Voxel::new panics with "Invalid value"
WithValueF32Panic ==
    /\ vop # "panic"
    /\ Code_of_f32(arg) > MAX_VALUE
    /\ vop' = "panic"
    /\ UNCHANGED <<vox, arg, fl, res>>
    /\ UNCHANGED codec_vars
    /\ UNCHANGED edit_vars

\* *voxel = voxel.with_value_f32(..), as the editor stores the result
Store ==
    /\ vop = "with"
    /\ vox' = res
    /\ vop' = "store"
    /\ UNCHANGED <<arg, fl, res>>
    /\ UNCHANGED codec_vars
    /\ UNCHANGED edit_vars

NextVoxel == ToF32 \/ WithValueF32 \/ WithValueF32Panic \/ Store

SpecVoxel == InitVoxel /\ [][NextVoxel]_vars

\* C5: for every material, code 0 reads as 1.0 and code 1023 as -1.0;
\* with_value_f32(1.0) gives code 0 and with_value_f32(-1.0) code 1023, and
\* both leave the material as it was.
C5_CodecExtremes ==
    /\ (vop = "f32" /\ Voxel_value(vox) = 0) => fl = F32_ONE
    /\ (vop = "f32" /\ Voxel_value(vox) = MAX_VALUE) => fl = -F32_ONE
    /\ (vop = "with" /\ arg = F32_ONE) =>
            (Voxel_value(res) = 0 /\ Voxel_material(res) = Voxel_material(vox))
    /\ (vop = "with" /\ arg = -F32_ONE) =>
            (Voxel_value(res) = MAX_VALUE /\ Voxel_material(res) = Voxel_material(vox))

\* a voxel of the last material and a middle code was given the value -1.0
C5_Witness ==
    /\ vop = "with"
    /\ arg = -F32_ONE
    /\ vox = Voxel_new(MAX_MATERIAL, 512)
    /\ res = Voxel_new(MAX_MATERIAL, MAX_VALUE)

(***************************************************************************)
(* edit.rs: the editing session.  Lengths and positions are in quarters    *)
(* of a metre (VOXEL_SIZE is 3 of them), distances handed to the voxels    *)
(* in 1/1023, as above.                                                    *)
(***************************************************************************)
SIZE == CHUNK_SIDES

FloorDiv(a, b) == a \div b

CeilDiv(a, b) == -((-a) \div b)

Min2(a, b) == IF a <= b THEN a ELSE b

Max2(a, b) == IF a >= b THEN a ELSE b

Abs(a) == IF a >= 0 THEN a ELSE -a

\* f32::clamp(-1., 1.)
Clamp1(d) == Max2(-F32_ONE, Min2(F32_ONE, d))

\* the largest t in lo..hi with t * t <= m
RECURSIVE IsqrtBetween(_, _, _)
IsqrtBetween(m, lo, hi) ==
    IF lo >= hi THEN lo
    ELSE LET mid == (lo + hi + 1) \div 2
         IN  IF mid * mid <= m THEN IsqrtBetween(m, mid, hi)
             ELSE IsqrtBetween(m, lo, mid - 1)

\* 512 * sqrt(n), rounded down, for 0 <= n < 2^12 (Vec3::length of a short vector)
SqrtFix(n) == IsqrtBetween(n * (2 ^ 18), 0, 2 ^ 15)

\* SignedDistanceFunction::aabb, as (min, max) per axis
SdfAabb(sdf) ==
    IF sdf.kind = "sphere"
    THEN [lo |-> << -sdf.r, -sdf.r, -sdf.r>>, hi |-> <<sdf.r, sdf.r, sdf.r>>]
    ELSE [lo |-> << -sdf.half[1], -sdf.half[2], -sdf.half[3]>>, hi |-> sdf.half]

\* SphereSdf::sdf, clamped to [-1, 1]: pos.length() - radius
SphereSdfClamped(r, p) ==
    LET n == p[1] * p[1] + p[2] * p[2] + p[3] * p[3]
    IN  IF n >= (r + 4) * (r + 4) THEN F32_ONE
        ELSE IF r >= 4 /\ n <= (r - 4) * (r - 4) THEN -F32_ONE
        ELSE Clamp1(((SqrtFix(n) - 512 * r) * MAX_VALUE) \div 2048)

\* BoxSdf::sdf, clamped to [-1, 1]:
\* q = |pos| - half; q.max(0).length() + q.x.max(q.y).max(q.z).min(0)
BoxSdfClamped(half, p) ==
    LET q == [i \in 1..3 |-> Abs(p[i]) - half[i]]
        out == [i \in 1..3 |-> Max2(q[i], 0)]
        n == out[1] * out[1] + out[2] * out[2] + out[3] * out[3]
        inner == Min2(Max2(Max2(q[1], q[2]), q[3]), 0)
    IN  IF n >= 16 THEN F32_ONE
        ELSE Clamp1(((SqrtFix(n) + 512 * inner) * MAX_VALUE) \div 2048)

\* sdf.sdf(pos).clamp(-1., 1.)
SdfClamped(sdf, p) ==
    IF sdf.kind = "sphere" THEN SphereSdfClamped(sdf.r, p)
    ELSE BoxSdfClamped(sdf.half, p)

\* smooth(a, b, k): h = max(k - |a - b|, 0); h * h * 0.25 / k
Smooth(a, b, k) ==
    LET h == Max2(k - Abs(a - b), 0) IN (h * h) \div (4 * k)

Smin(a, b, k) == Min2(a, b) - Smooth(a, b, k)

Smax(a, b, k) == Max2(a, b) + Smooth(a, b, k)

\* the voxel-index box of an edit: [aabb_min, aabb_max) with the margin of one
VoxelBox(e) ==
    LET aabb == SdfAabb(e.sdf)
    IN  [lo |-> [i \in 1..3 |-> FloorDiv(aabb.lo[i] + e.rel[i], VOXEL_SIZE_Q) - 1],
         hi |-> [i \in 1..3 |-> CeilDiv(aabb.hi[i] + e.rel[i], VOXEL_SIZE_Q) + 1]]

\* a chunk offset by truncation instead of floor
ChunkOffset_truncated(x) == IF x >= 0 THEN x \div SIZE ELSE -((-x) \div SIZE)

\* a chunk offset by rounding to the nearest chunk
ChunkOffset_rounded(x) == FloorDiv(2 * x + SIZE, 2 * SIZE)

\* get_voxel: (relative_x as f32 / SIZE as f32).floor() as i32
ChunkOffset(x) == FloorDiv(x, SIZE)

\* a range check that only looks at the upper limit
InRange_upper_only(cp) == \A i \in 1..3 : cp[i] <= I8_MAX

\* get_voxel: the check against the limits of i8
InRange(cp) == \A i \in 1..3 : cp[i] >= I8_MIN /\ cp[i] <= I8_MAX

\* CHUNK_SHAPE.linearize, as a 1-based index into the buffer
Linearize(l) == 1 + l[1] + (SIZE * (l[2] + (SIZE * l[3])))

\* the voxel index that get_voxel maps to voxel i (1-based) of chunk cp
VoxelIndexOf(base, cp, i) ==
    <<((i - 1) % SIZE) + ((cp[1] - base[1]) * SIZE),
      (((i - 1) \div SIZE) % SIZE) + ((cp[2] - base[2]) * SIZE),
      ((i - 1) \div (SIZE * SIZE)) + ((cp[3] - base[3]) * SIZE)>>

InBox(b, v) == \A i \in 1..3 : v[i] >= b.lo[i] /\ v[i] < b.hi[i]

\* the position the sdf is sampled at for voxel index v: (v + 1) * VOXEL_SIZE - relative_pos
SamplePos(e, v) == [i \in 1..3 |-> (v[i] + 1) * VOXEL_SIZE_Q - e.rel[i]]

\* the body of the loops of apply_sdf for one voxel: the new Voxel
BlendVoxel(old, e, v) ==
    LET cur_value == Voxel_to_f32(old)
        new_value == SdfClamped(e.sdf, SamplePos(e, v))
        value == IF e.mode = "Add" THEN Smin(cur_value, new_value, e.k)
                 ELSE Smax(cur_value, -new_value, e.k)
    IN  Voxel_with_value_f32(old, Clamp1(value))

\* the chunk positions that get_voxel computes during one apply_sdf: each
\* component comes from the voxel index of its own axis
TargetChunks(e) ==
    LET b == VoxelBox(e)
        axis(a) == {e.base[a] + ChunkOffset(x) : x \in b.lo[a]..(b.hi[a] - 1)}
    IN  {<<cx, cy, cz>> : cx \in axis(1), cy \in axis(2), cz \in axis(3)}

\* a session that drops a whole edit when one of its voxels is out of range
VisitedChunks_whole_edit(e) ==
    IF \A cp \in TargetChunks(e) : InRange(cp) THEN TargetChunks(e) ELSE {}

\* the chunk positions for which get_voxel returns a voxel during one apply_sdf
VisitedChunks(e) == {cp \in TargetChunks(e) : InRange(cp)}

LexLess(a, b) ==
    \/ a[1] < b[1]
    \/ a[1] = b[1] /\ a[2] < b[2]
    \/ a[1] = b[1] /\ a[2] = b[2] /\ a[3] < b[3]

\* the first voxel index of the loops that lies in chunk cp
FirstVoxel(e, cp) ==
    LET b == VoxelBox(e)
    IN  [i \in 1..3 |-> Max2(b.lo[i], (cp[i] - e.base[i]) * SIZE)]

\* the chunks of S in the order in which the loops reach them
InLoopOrder(e, S) ==
    [j \in 1..Cardinality(S) |->
        CHOOSE cp \in S :
            Cardinality({d \in S : LexLess(FirstVoxel(e, d), FirstVoxel(e, cp))}) = j - 1]

NoEntity == "None"

\* get_voxel: the entity of a chunk that is materialized now
EntityOf(cp) == IF cp \in DOMAIN chunk_map THEN chunk_map[cp] ELSE NoEntity

\* the closure the callers pass as chunks_getter: query.get(entity).expand()
ChunksGetter(entity) == ChunkData_expand(world[entity])

\* a first visit that never asks the chunk map: every chunk starts as air
Materialize_always_air(cp) == RawChunk_air

\* get_voxel: the buffer a chunk starts the session with
Materialize(cp) ==
    IF cp \in DOMAIN chunk_map THEN ChunksGetter(chunk_map[cp]) ELSE RawChunk_air

\* the voxel-index box b in the local coordinates of chunk cp
LocalBox(b, base, cp) ==
    [lo |-> [a \in 1..3 |-> b.lo[a] - ((cp[a] - base[a]) * SIZE)],
     hi |-> [a \in 1..3 |-> b.hi[a] - ((cp[a] - base[a]) * SIZE)]]

\* voxel i (1-based) of a chunk lies in the local box lb
InLocalBox(lb, i) ==
    /\ (i - 1) \div (SIZE * SIZE) >= lb.lo[3]
    /\ (i - 1) \div (SIZE * SIZE) < lb.hi[3]
    /\ ((i - 1) \div SIZE) % SIZE >= lb.lo[2]
    /\ ((i - 1) \div SIZE) % SIZE < lb.hi[2]
    /\ (i - 1) % SIZE >= lb.lo[1]
    /\ (i - 1) % SIZE < lb.hi[1]

\* an edit that starts from the stored chunk again instead of the session's buffer
EditedBuffer_from_store(buf, e, lb, cp) ==
    [i \in 1..CHUNK_VOXELS |->
        IF InLocalBox(lb, i)
        THEN BlendVoxel(Materialize(cp)[i], e, VoxelIndexOf(e.base, cp, i))
        ELSE Materialize(cp)[i]] \o <<>>

\* one apply_sdf on the buffer of chunk cp: the voxels the loops reach in it
\* are those of the local box lb
\* (the result as an explicit sequence)
EditedBuffer(buf, e, lb, cp) ==
    [i \in 1..CHUNK_VOXELS |->
        IF InLocalBox(lb, i)
        THEN BlendVoxel(buf[i], e, VoxelIndexOf(e.base, cp, i))
        ELSE buf[i]] \o <<>>

\* apply_sdf: the entries of modified after the loops; fresh lists the chunks
\* that are materialized, in the order in which the loops reach them
ModifiedAfter(mod, n0, fresh) ==
    [cp \in DOMAIN mod \cup {fresh[j] : j \in 1..Len(fresh)} |->
        IF cp \in DOMAIN mod THEN mod[cp]
        ELSE [entity |-> EntityOf(cp),
              index |-> n0 - 1 + (CHOOSE j \in 1..Len(fresh) : fresh[j] = cp)]]

\* the position whose buffer is chunks[j] (1-based)
PositionAt(mod, j) == CHOOSE cp \in DOMAIN mod : mod[cp].index = j - 1

\* ChunkModifier::apply_sdf, all of its loops
ApplySdf(s, e) ==
    /\ Len(calls[s]) < MaxCalls
    /\ \E visited \in {VisitedChunks(e)} :
       \E fresh \in {InLoopOrder(e, visited \ DOMAIN modified[s])} :
       \E mod1 \in {ModifiedAfter(modified[s], Len(chunks[s]), fresh)} :
       \E before \in {chunks[s] \o [j \in 1..Len(fresh) |-> Materialize(fresh[j])]} :
       \E b \in {VoxelBox(e)} :
           /\ modified' = [modified EXCEPT ![s] = mod1]
           /\ chunks' = [chunks EXCEPT ![s] =
                  [j \in 1..Len(before) |->
                      IF PositionAt(mod1, j) \in visited
                      THEN EditedBuffer(before[j], e, LocalBox(b, e.base, PositionAt(mod1, j)),
                                        PositionAt(mod1, j))
                      ELSE before[j]]]
           /\ getter' = [getter EXCEPT ![s] = getter[s] \o
                  SelectSeq([j \in 1..Len(fresh) |-> EntityOf(fresh[j])],
                            LAMBDA x : x # NoEntity)]
           /\ seen' = [seen EXCEPT ![s] =
                  [cp \in DOMAIN mod1 |->
                      IF cp \in DOMAIN seen[s] THEN seen[s][cp] ELSE applied]]
    /\ calls' = [calls EXCEPT ![s] = Append(calls[s], e)]
    /\ op' = [kind |-> "apply_sdf", session |-> s]
    /\ UNCHANGED <<chunk_map, world, commands, menu, positions, applied, mesh>>
    /\ UNCHANGED codec_vars
    /\ UNCHANGED voxel_vars

\* a commit that only updates existing chunks
SignalOf_update_only(m, buf, cp) ==
    [kind |-> "insert", entity |-> m.entity, data |-> ChunkData_from(buf)]

\* ChunkModifier::apply: the command queued for one entry of modified
SignalOf(m, buf, cp) ==
    IF m.entity # NoEntity
    THEN [kind |-> "insert", entity |-> m.entity, data |-> ChunkData_from(buf)]
    ELSE [kind |-> "spawn", pos |-> cp, data |-> ChunkData_from(buf)]

\* ChunkModifier::apply: one command per entry of modified.  The order of a
\* HashMap's iteration is arbitrary; the commands of one call address distinct
\* chunks, and they are listed here in the order of the buffers.
Batch(s) ==
    [j \in 1..Cardinality(DOMAIN modified[s]) |->
        LET cp == CHOOSE c \in DOMAIN modified[s] : modified[s][c].index = j - 1
        IN  SignalOf(modified[s][cp], chunks[s][modified[s][cp].index + 1], cp)]

Commits(s) == Cardinality({j \in 1..Len(commands) : commands[j].session = s})

Apply(s) ==
    /\ Commits(s) < MaxCommits
    /\ commands' = Append(commands, [session |-> s, signals |-> Batch(s)])
    /\ op' = [kind |-> "apply", session |-> s]
    /\ UNCHANGED <<chunk_map, world, modified, chunks, getter, calls, menu>>
    /\ UNCHANGED <<positions, applied, seen, mesh>>
    /\ UNCHANGED codec_vars
    /\ UNCHANGED voxel_vars

(***************************************************************************)
(* The worlds and the edits of the model                                   *)
(***************************************************************************)
SOLID == Voxel_new(1, MAX_VALUE)

\* no chunk exists yet
EmptyMap == <<>>

EmptyWorld == <<>>

\* four chunks exist: an all-air one, one with its upper half solid, and a
\* solid and an all-air one in the two corners of the coordinate range
SomeChunks ==
    (<< -2, 1, 5>> :> "e1") @@ (<<0, 0, 0>> :> "e2")
        @@ (<<I8_MAX, I8_MAX, I8_MAX>> :> "e3") @@ (<<I8_MIN, I8_MIN, I8_MIN>> :> "e4")

SomeWorld ==
    ("e1" :> ChunkData_air)
        @@ ("e2" :> <<AIR, AIR, CHUNK_VOXELS \div 2, SOLID, SOLID, CHUNK_VOXELS \div 2>>)
        @@ ("e3" :> <<SOLID, SOLID, CHUNK_VOXELS>>)
        @@ ("e4" :> ChunkData_air)

Sphere(r) == [kind |-> "sphere", r |-> 4 * r]

\* the smoothness 0.01 of the tests, in 1/1023
SMOOTHNESS == 10

Edit(base, sdf, mode, rel) ==
    [base |-> base, sdf |-> sdf, mode |-> mode, k |-> SMOOTHNESS, rel |-> rel]

\* test_modify_single_chunk: SphereSdf(4.) at (6, 7, 8), then Remove SphereSdf(3.) at (8, 6, 6)
EditSingle == Edit(<< -2, 1, 5>>, Sphere(4), "Add", <<24, 28, 32>>)

EditSingleRemove == Edit(<< -2, 1, 5>>, Sphere(3), "Remove", <<32, 24, 24>>)

\* test_modify_two_chunk_border: SphereSdf(2.) at (1, 10, 10)
EditBorder == Edit(<<0, 0, 0>>, Sphere(2), "Add", <<4, 40, 40>>)

\* test_modify_big_sdf: SphereSdf(11.) at (10, 10, 10)
EditBig == Edit(<<0, 0, 0>>, Sphere(11), "Add", <<40, 40, 40>>)

\* ignore_out_of_bounds_edits: SphereSdf(1.) at (-5, -5, -5) and at (20, 20, 20)
EditBelow == Edit(<<I8_MIN, I8_MIN, I8_MIN>>, Sphere(1), "Add", << -20, -20, -20>>)

EditAbove == Edit(<<I8_MAX, I8_MAX, I8_MAX>>, Sphere(1), "Add", <<80, 80, 80>>)

\* a box of half extents 2 at (14, 7, 7) from chunk (127, 0, 0): it reaches
\* into the x coordinate 128
EditStraddle ==
    Edit(<<I8_MAX, 0, 0>>, [kind |-> "box", half |-> <<8, 8, 8>>], "Add", <<56, 28, 28>>)

\* SphereSdf(1.) at (16.5, 16.5, 16.5) from chunk (127, 127, 127): the sphere
\* lies in the coordinates 128, its margin reaches voxel 19 of (127, 127, 127)
EditMargin == Edit(<<I8_MAX, I8_MAX, I8_MAX>>, Sphere(1), "Remove", <<66, 66, 66>>)

SmallEdits ==
    {EditSingle, EditSingleRemove, EditBorder, EditBelow, EditAbove, EditStraddle, EditMargin}

BigEdits == {EditBig, EditBorder, EditSingle, EditBelow, EditAbove}

Sessions == {1}

InitSessions ==
    /\ modified = [s \in Sessions |-> <<>>]
    /\ chunks = [s \in Sessions |-> <<>>]
    /\ getter = [s \in Sessions |-> <<>>]
    /\ calls = [s \in Sessions |-> <<>>]
    /\ seen = [s \in Sessions |-> <<>>]
    /\ commands = <<>>
    /\ applied = 0
    /\ mesh = <<>>
    /\ op = [kind |-> "new", session |-> 0]
    /\ CodecIdle
    /\ VoxelIdle

\* every chunk entity carries the position the chunk map lists it under
PositionsOf(map) ==
    [ent \in {map[cp] : cp \in DOMAIN map} |-> CHOOSE cp \in DOMAIN map : map[cp] = ent]

InitEdit ==
    /\ \/ chunk_map = EmptyMap /\ world = EmptyWorld
       \/ chunk_map = SomeChunks /\ world = SomeWorld
    /\ positions = PositionsOf(chunk_map)
    /\ menu = SmallEdits
    /\ InitSessions

InitBig ==
    /\ chunk_map = EmptyMap
    /\ world = EmptyWorld
    /\ positions = PositionsOf(chunk_map)
    /\ menu = BigEdits
    /\ InitSessions

NextEdit ==
    \/ \E s \in DOMAIN modified, e \in menu : ApplySdf(s, e)
    \/ \E s \in DOMAIN modified : Apply(s)

SpecEdit == InitEdit /\ [][NextEdit]_vars

SpecBig == InitBig /\ [][NextEdit]_vars

(***************************************************************************)
(* The editing session: what is touched                                    *)
(***************************************************************************)
\* the length of a chunk's side in quarters of a metre
CHUNK_LENGTH_Q == CHUNK_SIDES * VOXEL_SIZE_Q

\* the q with q * d <= x < (q + 1) * d, for the x that occur here
FloorOf(x, d) == CHOOSE q \in -16..16 : q * d <= x /\ x < (q + 1) * d

\* the chunk coordinates, on axis a, of the space that the SDF's own bounding
\* box (without the margin of the voxel box) occupies
SdfChunkCoords(e, a) ==
    {e.base[a] + FloorOf(p, CHUNK_LENGTH_Q) :
        p \in (SdfAabb(e.sdf).lo[a] + e.rel[a])..(SdfAabb(e.sdf).hi[a] + e.rel[a])}

\* the SDF lies entirely inside one chunk coordinate, and that one is outside
\* the range of i8
SdfInsideOutOfRangeChunk(e) ==
    /\ \A a \in 1..3 : Cardinality(SdfChunkCoords(e, a)) = 1
    /\ \E a \in 1..3 : \A c \in SdfChunkCoords(e, a) : c < I8_MIN \/ c > I8_MAX

\* the chunk coordinates, on axis a, of the voxel indices of the voxel box
BoxChunkCoords(e, a) ==
    {e.base[a] + FloorOf(x, CHUNK_SIDES) : x \in VoxelBox(e).lo[a]..(VoxelBox(e).hi[a] - 1)}

\* every voxel index of the voxel box has a chunk coordinate outside the range
BoxOutOfRange(e) ==
    \E a \in 1..3 : \A c \in BoxChunkCoords(e, a) : c < I8_MIN \/ c > I8_MAX

NothingTouched(s) == modified[s] = <<>> /\ chunks[s] = <<>> /\ getter[s] = <<>>

AllCalls(s, P(_)) == calls[s] # <<>> /\ \A n \in 1..Len(calls[s]) : P(calls[s][n])

\* C6, as stated: a session whose apply_sdf calls all had an SDF lying
\* entirely inside one chunk coordinate outside the range of i8 has an empty
\* touched map and an empty buffer list, and never invoked the callback.
C6_SdfInsideOutOfRange ==
    \A s \in DOMAIN calls :
        AllCalls(s, SdfInsideOutOfRangeChunk) => NothingTouched(s)

\* C6: a session whose apply_sdf calls all had a margin-expanded voxel box
\* lying entirely in chunk coordinates outside the range of i8 has an empty
\* touched map and an empty buffer list, and never invoked the callback.
C6_BoxOutOfRange ==
    \A s \in DOMAIN calls :
        AllCalls(s, BoxOutOfRange) => NothingTouched(s)

\* both calls of ignore_out_of_bounds_edits were made, while chunks exist
C6_Witness ==
    /\ calls[1] = <<EditBelow, EditAbove>>
    /\ chunk_map = SomeChunks
    /\ op.kind = "apply_sdf"
    /\ NothingTouched(1)

(***************************************************************************)
(* The editing session: what is stored                                     *)
(***************************************************************************)
\* the buffer a chunk starts a session with
InitialBuffer(cp) ==
    IF cp \in DOMAIN chunk_map THEN ChunkData_expand(world[chunk_map[cp]])
    ELSE [i \in 1..CHUNK_VOXELS |-> AIR]

\* voxel i of chunk cp after the first n calls of the sequence cs, each call
\* blending the voxel when its index lies in the call's voxel box
RECURSIVE VoxelAfter(_, _, _, _, _)
VoxelAfter(cs, n, init, cp, i) ==
    IF n = 0 THEN init[i]
    ELSE LET v == VoxelIndexOf(cs[n].base, cp, i)
         IN  IF InBox(VoxelBox(cs[n]), v)
             THEN BlendVoxel(VoxelAfter(cs, n - 1, init, cp, i), cs[n], v)
             ELSE VoxelAfter(cs, n - 1, init, cp, i)

\* all chunk coordinates that the voxel boxes of the calls of session s cover
CoveredCoords(s) ==
    UNION {BoxChunkCoords(calls[s][n], 1) \X BoxChunkCoords(calls[s][n], 2)
               \X BoxChunkCoords(calls[s][n], 3) : n \in 1..Len(calls[s])}

WithinI8(cp) == \A a \in 1..3 : cp[a] \in I8_MIN..I8_MAX

\* C7: of the chunk coordinates that the voxel boxes of a session's calls
\* cover, those within the range of i8 on all three axes are in the touched
\* map and their buffers hold, voxel by voxel, the blend of every call whose
\* box contains the voxel; those out of range on any axis are not in the map.
C7_DroppedPerVoxel ==
    \A s \in DOMAIN calls :
        \A cp \in CoveredCoords(s) :
            IF WithinI8(cp)
            THEN /\ cp \in DOMAIN modified[s]
                 /\ \A init \in {InitialBuffer(cp)} :
                    \A buf \in {chunks[s][modified[s][cp].index + 1]} :
                    \A cs \in {calls[s]} :
                        \A i \in 1..CHUNK_VOXELS : buf[i] = VoxelAfter(cs, Len(cs), init, cp, i)
            ELSE cp \notin DOMAIN modified[s]

\* a box that straddles the upper limit on x was applied: its part in chunk
\* (127, 0, 0) is stored, the chunk (128, 0, 0) is not in the map
C7_Witness ==
    /\ calls[1] = <<EditStraddle>>
    /\ CoveredCoords(1) = {<<I8_MAX, 0, 0>>, <<I8_MAX + 1, 0, 0>>}
    /\ DOMAIN modified[1] = {<<I8_MAX, 0, 0>>}
    /\ chunks[1][1][Linearize(<<17, 9, 9>>)] = Voxel_new(0, MAX_VALUE)
    /\ chunks[1][1][Linearize(<<0, 0, 0>>)] = AIR

\* C8: the touched map's keys are exactly the covered chunk coordinates
\* that are within the range of i8; the sphere of radius 4 in chunk
\* (-2, 1, 5) touches that chunk only, also after the smaller Remove sphere,
\* and the sphere at the border of chunk (0, 0, 0) touches it and (-1, 0, 0).
C8_TouchedSet ==
    \A s \in DOMAIN calls :
        /\ DOMAIN modified[s] = {cp \in CoveredCoords(s) : WithinI8(cp)}
        /\ Len(chunks[s]) = Cardinality(DOMAIN modified[s])
        /\ calls[s] \in {<<EditSingle>>, <<EditSingle, EditSingleRemove>>}
               => DOMAIN modified[s] = {<< -2, 1, 5>>}
        /\ calls[s] = <<EditBorder>> => DOMAIN modified[s] = {<<0, 0, 0>>, << -1, 0, 0>>}

\* both calls of test_modify_single_chunk were made
C8_Witness ==
    /\ calls[1] = <<EditSingle, EditSingleRemove>>
    /\ op.kind = "apply_sdf"
    /\ DOMAIN modified[1] = {<< -2, 1, 5>>}
    /\ Len(chunks[1]) = 1

\* the edit of test_modify_big_sdf was the only call of session s
BigEditApplied(s) == calls[s] = <<EditBig>> /\ chunk_map = EmptyMap

\* C9, as stated: the large edit of test_modify_big_sdf, made alone in a
\* session with an empty chunk map, leaves exactly 8 entries in the touched
\* map and 8 buffers in the buffer list.
C9_EightChunks ==
    \A s \in DOMAIN calls :
        BigEditApplied(s) =>
            Cardinality(DOMAIN modified[s]) = 8 /\ Len(chunks[s]) = 8

\* C9: the large edit of test_modify_big_sdf, made alone in a session with
\* an empty chunk map, leaves exactly 27 entries in the touched map, the
\* chunk coordinates -1..1 on each axis, and 27 buffers in the buffer list.
C9_TwentySevenChunks ==
    \A s \in DOMAIN calls :
        BigEditApplied(s) =>
            /\ DOMAIN modified[s] = (-1..1) \X (-1..1) \X (-1..1)
            /\ Cardinality(DOMAIN modified[s]) = 27
            /\ Len(chunks[s]) = 27

\* the call of test_modify_big_sdf was made, and it stored solid voxels
C9_Witness ==
    /\ BigEditApplied(1)
    /\ op.kind = "apply_sdf"
    /\ Len(chunks[1]) = 27
    /\ chunks[1][modified[1][<<0, 0, 0>>].index + 1][Linearize(<<12, 12, 12>>)] = Voxel_new(0, MAX_VALUE)

(***************************************************************************)
(* The editing session: the commit                                         *)
(***************************************************************************)
\* the signals of the last commit
LastBatch == commands[Len(commands)].signals

\* the signal sig addresses chunk coordinate cp: an update does so with the
\* handle the chunk map holds for cp, a creation with cp itself
Addresses(sig, cp) ==
    IF cp \in DOMAIN chunk_map
    THEN sig.kind = "insert" /\ sig.entity = chunk_map[cp]
    ELSE sig.kind = "spawn" /\ sig.pos = cp

\* C10: right after a commit, its batch holds as many signals as the touched
\* map has coordinates, and for each touched coordinate exactly one signal
\* addresses it: an update with the handle of the chunk map, or a creation
\* with the coordinate where the map has none; its payload is the run-length
\* encoding of the session's buffer for that coordinate.
C10_OneSignalPerTouched ==
    op.kind = "apply" =>
        /\ Len(LastBatch) = Cardinality(DOMAIN modified[op.session])
        /\ \A cp \in DOMAIN modified[op.session] :
               /\ Cardinality({j \in 1..Len(LastBatch) : Addresses(LastBatch[j], cp)}) = 1
               /\ \A j \in 1..Len(LastBatch) :
                      Addresses(LastBatch[j], cp) =>
                          LastBatch[j].data =
                              ChunkData_from(chunks[op.session][modified[op.session][cp].index + 1])

\* a commit after the border edit, where chunk (0, 0, 0) exists and chunk
\* (-1, 0, 0) does not: one update and one creation
C10_Witness ==
    /\ op.kind = "apply"
    /\ chunk_map = SomeChunks
    /\ calls[1] = <<EditBorder>>
    /\ Len(LastBatch) = 2
    /\ \E j \in 1..2 : LastBatch[j].kind = "insert" /\ LastBatch[j].entity = "e2"
    /\ \E j \in 1..2 : LastBatch[j].kind = "spawn" /\ LastBatch[j].pos = << -1, 0, 0>>

(***************************************************************************)
(* The world that receives the commits.  The crate only queues commands;   *)
(* that they are applied to the entities, and that a spawned chunk is      *)
(* entered in the chunk map, is the caller's part (bevy's command queue     *)
(* and the application around the crate).                                  *)
(***************************************************************************)
\* the entities the world hands out for spawned chunks, in this order
EntityPool == <<"n1", "n2", "n3", "n4", "n5", "n6", "n7", "n8">>

FreeEntities(w) == {j \in 1..Len(EntityPool) : EntityPool[j] \notin DOMAIN w}

NewEntity(w) == EntityPool[CHOOSE j \in FreeEntities(w) : \A i \in FreeEntities(w) : j <= i]

\* the world after one command: an insert replaces the ChunkData of its
\* entity, a spawn makes an entity with the position and the data and enters
\* it in the chunk map under that position
AfterSignal(st, sig) ==
    IF sig.kind = "insert"
    THEN [st EXCEPT !.world = (sig.entity :> sig.data) @@ st.world]
    ELSE [map |-> (sig.pos :> NewEntity(st.world)) @@ st.map,
          world |-> (NewEntity(st.world) :> sig.data) @@ st.world,
          pos |-> (NewEntity(st.world) :> sig.pos) @@ st.pos]

RECURSIVE AfterSignals(_, _, _)
AfterSignals(st, sigs, j) ==
    IF j > Len(sigs) THEN st
    ELSE AfterSignals(AfterSignal(st, sigs[j]), sigs, j + 1)

\* the world applies the oldest batch of commands that it has not applied
\* yet; the grids built from the data it replaces are dropped with it
Flush ==
    /\ applied < Len(commands)
    /\ Cardinality(FreeEntities(world)) >= Len(commands[applied + 1].signals)
    /\ \E st \in {AfterSignals([map |-> chunk_map, world |-> world, pos |-> positions],
                               commands[applied + 1].signals, 1)} :
           /\ chunk_map' = st.map
           /\ world' = st.world
           /\ positions' = st.pos
    /\ applied' = applied + 1
    /\ mesh' = <<>>
    /\ op' = [kind |-> "flush", session |-> commands[applied + 1].session]
    /\ UNCHANGED <<modified, chunks, getter, calls, commands, menu, seen>>
    /\ UNCHANGED codec_vars
    /\ UNCHANGED voxel_vars

\* a drop of the session that queues its commands first
Discard_commits(s) ==
    /\ calls[s] # <<>>
    /\ modified' = [modified EXCEPT ![s] = <<>>]
    /\ chunks' = [chunks EXCEPT ![s] = <<>>]
    /\ getter' = [getter EXCEPT ![s] = <<>>]
    /\ calls' = [calls EXCEPT ![s] = <<>>]
    /\ seen' = [seen EXCEPT ![s] = <<>>]
    /\ commands' = Append(commands, [session |-> s, signals |-> Batch(s)])
    /\ op' = [kind |-> "discard", session |-> s]
    /\ UNCHANGED <<chunk_map, world, menu, positions, applied, mesh>>
    /\ UNCHANGED codec_vars
    /\ UNCHANGED voxel_vars

\* the caller drops the ChunkModifier (it has no Drop of its own: the map and
\* the buffers are freed) and goes on with ChunkModifier::default()
Discard(s) ==
    /\ calls[s] # <<>>
    /\ modified' = [modified EXCEPT ![s] = <<>>]
    /\ chunks' = [chunks EXCEPT ![s] = <<>>]
    /\ getter' = [getter EXCEPT ![s] = <<>>]
    /\ calls' = [calls EXCEPT ![s] = <<>>]
    /\ seen' = [seen EXCEPT ![s] = <<>>]
    /\ op' = [kind |-> "discard", session |-> s]
    /\ UNCHANGED <<chunk_map, world, commands, menu, positions, applied, mesh>>
    /\ UNCHANGED codec_vars
    /\ UNCHANGED voxel_vars

\* two sessions that edit the same chunk: the first adds the sphere of
\* test_modify_single_chunk, the second removes the smaller one
StoreEdits == {EditSingle, EditSingleRemove}

EditOfSession(s) == IF s = 1 THEN EditSingle ELSE EditSingleRemove

InitStore ==
    /\ \/ chunk_map = EmptyMap /\ world = EmptyWorld
       \/ chunk_map = SomeChunks /\ world = SomeWorld
    /\ positions = PositionsOf(chunk_map)
    /\ menu = StoreEdits
    /\ modified = [s \in 1..2 |-> <<>>]
    /\ chunks = [s \in 1..2 |-> <<>>]
    /\ getter = [s \in 1..2 |-> <<>>]
    /\ calls = [s \in 1..2 |-> <<>>]
    /\ seen = [s \in 1..2 |-> <<>>]
    /\ commands = <<>>
    /\ applied = 0
    /\ mesh = <<>>
    /\ op = [kind |-> "new", session |-> 0]
    /\ CodecIdle
    /\ VoxelIdle

NextStore ==
    \/ \E s \in DOMAIN modified, e \in menu : e = EditOfSession(s) /\ ApplySdf(s, e)
    \/ \E s \in DOMAIN modified : Apply(s)
    \/ Flush

SpecStore == InitStore /\ [][NextStore]_vars

(***************************************************************************)
(* surface_nets.rs                                                         *)
(***************************************************************************)
\* SurroundingChunks::LAST_CHUNK
LAST_CHUNK == CHUNK_SIDES + 1

\* Grid::BOUNDS, CHUNK_BOUNDS + 2
BOUNDS == CHUNK_SIDES + 2

\* Grid::SHAPE.usize()
GRID_SAMPLES == BOUNDS * BOUNDS * BOUNDS

\* SurroundingChunks::SHAPE.usize()
SURROUNDING == 3 * 3 * 3

\* an i8 sum in a build without overflow checks
WrapI8(x) == ((x - I8_MIN) % 256) + I8_MIN

\* impl Add<[i8; 3]> for ChunkPosition, the sum that a build without overflow
\* checks returns
ChunkPosition_add(pos, rhs) ==
    <<WrapI8(pos[1] + rhs[1]), WrapI8(pos[2] + rhs[2]), WrapI8(pos[3] + rhs[3])>>

\* impl Add<[i8; 3]> for ChunkPosition: one of the three sums leaves i8, which
\* a build with overflow checks answers with a panic
AddOverflows(pos, rhs) == \E a \in 1..3 : pos[a] + rhs[a] \notin I8_MIN..I8_MAX

\* generate_chunk: [-1 + x, -1 + y, -1 + z] for delinearize(i) = [x, y, z]
NeighborOffset(i) == <<(i % 3) - 1, ((i \div 3) % 3) - 1, (i \div 9) - 1>>

\* Option<RawChunk>::None
NoChunk == <<>>

\* generate_chunk, the first loop: the 27 neighbours that the chunk map and the
\* query give, expanded (entry i + 1 for the index i of the source)
Surrounding(pos) ==
    [j \in 1..SURROUNDING |->
        LET desired_pos == ChunkPosition_add(pos, NeighborOffset(j - 1))
        IN  IF desired_pos \in DOMAIN chunk_map /\ chunk_map[desired_pos] \in DOMAIN world
            THEN ChunkData_expand(world[chunk_map[desired_pos]])
            ELSE NoChunk] \o <<>>

\* SurroundingChunks::get_voxel, first map: the neighbour on one axis
NeighborIndex(v) == IF v <= 0 THEN 0 ELSE IF v >= LAST_CHUNK THEN 2 ELSE 1

\* a grid whose last layer is the second layer of the next chunk
LocalCoord_second_layer(v) ==
    IF v <= 0 THEN (CHUNK_SIDES - 1) + v
    ELSE IF v >= LAST_CHUNK THEN (v - LAST_CHUNK) + 1
    ELSE v - 1

\* SurroundingChunks::get_voxel, second map: the coordinate inside the chunk
LocalCoord(v) ==
    IF v <= 0 THEN (CHUNK_SIDES - 1) + v
    ELSE IF v >= LAST_CHUNK THEN v - LAST_CHUNK
    ELSE v - 1

\* SurroundingChunks::get_voxel
SurroundingChunks_get_voxel(sur, xyz) ==
    LET chunk_idx == NeighborIndex(xyz[1])
                        + (3 * (NeighborIndex(xyz[2]) + (3 * NeighborIndex(xyz[3]))))
    IN  IF Len(sur[chunk_idx + 1]) = 0 THEN AIR
        ELSE sur[chunk_idx + 1][Linearize(<<LocalCoord(xyz[1]), LocalCoord(xyz[2]),
                                            LocalCoord(xyz[3])>>)]

\* Grid::SHAPE.delinearize(i), for the sample i + 1 of the model
GridCoords(i) == <<i % BOUNDS, (i \div BOUNDS) % BOUNDS, i \div (BOUNDS * BOUNDS)>>

\* Grid::SHAPE.linearize, 1-based
GridIndex(xyz) == 1 + xyz[1] + (BOUNDS * (xyz[2] + (BOUNDS * xyz[3])))

\* generate_chunk, the second loop: the padded grid
GridOf(sur) ==
    [j \in 1..GRID_SAMPLES |-> SurroundingChunks_get_voxel(sur, GridCoords(j - 1))] \o <<>>

\* generate_chunk stopped by the panic of an overflowing sum: no grid
Panicked == <<>>

\* the chunks whose meshes are asked for: the two that the border edit of
\* the tests touches, the neighbours of chunk (0, 0, 0) on the other two
\* axes, the two corners of the coordinate range, and the neighbour of one
\* corner
MeshPositions ==
    {<< -1, 0, 0>>, <<0, 0, 0>>, <<0, 1, 0>>, <<0, 0, 1>>,
     <<I8_MAX, I8_MAX, I8_MAX>>, <<I8_MIN, I8_MIN, I8_MIN>>, <<I8_MAX - 1, I8_MAX, I8_MAX>>}

\* generate_chunk up to the grid handed to surface_nets. It reads the chunk
\* map and the stored data only, so it is run here between sessions, with no
\* command waiting. A sum that leaves i8 panics in a build with overflow
\* checks and wraps in a build without them.
GenerateChunk(pos) ==
    /\ applied = Len(commands)
    /\ \A s \in DOMAIN calls : calls[s] = <<>>
    /\ pos \notin DOMAIN mesh
    /\ Cardinality(DOMAIN mesh) < MaxMeshes
    /\ \/ /\ \E i \in 0..(SURROUNDING - 1) : AddOverflows(pos, NeighborOffset(i))
          /\ mesh' = (pos :> Panicked) @@ mesh
       \/ \E sur \in {Surrounding(pos)} : mesh' = (pos :> GridOf(sur)) @@ mesh
    /\ op' = [kind |-> "generate_chunk", session |-> 0]
    /\ UNCHANGED <<chunk_map, world, modified, chunks, getter, calls, commands, menu>>
    /\ UNCHANGED <<positions, applied, seen>>
    /\ UNCHANGED codec_vars
    /\ UNCHANGED voxel_vars

\* one session that repeats the border edit of the tests, commits or is
\* dropped, and the meshes generated from what is stored
InitMesh ==
    /\ \/ chunk_map = EmptyMap /\ world = EmptyWorld
       \/ chunk_map = SomeChunks /\ world = SomeWorld
    /\ positions = PositionsOf(chunk_map)
    /\ menu = {EditBorder}
    /\ InitSessions

NextMesh ==
    \/ \E s \in DOMAIN modified, e \in menu : ApplySdf(s, e)
    \/ \E s \in DOMAIN modified : Apply(s)
    \/ \E s \in DOMAIN modified : Discard(s)
    \/ Flush
    \/ \E pos \in MeshPositions : GenerateChunk(pos)

SpecMesh == InitMesh /\ [][NextMesh]_vars

(***************************************************************************)
(* Two sessions on one chunk                                               *)
(***************************************************************************)
\* the signal sig is for the chunk at cp
SignalFor(sig, cp) ==
    IF sig.kind = "spawn" THEN sig.pos = cp ELSE positions[sig.entity] = cp

\* the batches among the first t that hold a signal for the chunk at cp
BatchesFor(cp, t) ==
    {k \in 1..t : \E j \in 1..Len(commands[k].signals) : SignalFor(commands[k].signals[j], cp)}

\* the ChunkData that batch k holds for the chunk at cp
DataFor(k, cp) ==
    LET sigs == commands[k].signals
    IN  sigs[CHOOSE j \in 1..Len(sigs) : SignalFor(sigs[j], cp)].data

\* session s materialized the chunk at cp after exactly one commit for cp,
\* made by another session, had been applied by the world
AfterOtherCommit(s, cp) ==
    /\ Cardinality(BatchesFor(cp, seen[s][cp])) = 1
    /\ \A k \in BatchesFor(cp, seen[s][cp]) : commands[k].session # s

\* C14: when a session commits a chunk that it materialized only after
\* another session's commit for that chunk had been applied to the world and
\* the chunk map, the data it commits are its own edits applied, in order, on
\* top of the data the other session committed.  (A commit that lacks the
\* other session's edit therefore comes from a session that materialized the
\* chunk before the other commit was applied.)
C14_NoLostUpdate ==
    op.kind = "apply" =>
        \A cp \in DOMAIN modified[op.session] :
            AfterOtherCommit(op.session, cp) =>
                \A k \in BatchesFor(cp, seen[op.session][cp]) :
                \A init \in {ChunkData_expand(DataFor(k, cp))} :
                \A mine \in {ChunkData_expand(DataFor(Len(commands), cp))} :
                \A cs \in {calls[op.session]} :
                    \A i \in 1..CHUNK_VOXELS : mine[i] = VoxelAfter(cs, Len(cs), init, cp, i)

\* the commit of a session is not built on the commit that another session
\* made for the same chunk and that the world has applied
LostUpdate ==
    /\ op.kind = "apply"
    /\ applied = Len(commands) - 1
    /\ \E cp \in DOMAIN modified[op.session] :
       \E k \in BatchesFor(cp, applied) :
           /\ commands[k].session # op.session
           /\ calls[commands[k].session] # <<>>
           /\ \E init \in {ChunkData_expand(DataFor(k, cp))} :
              \E mine \in {ChunkData_expand(DataFor(Len(commands), cp))} :
              \E cs \in {calls[op.session]} :
                  \E i \in 1..CHUNK_VOXELS : mine[i] # VoxelAfter(cs, Len(cs), init, cp, i)

\* session 1 added its sphere and committed, the world applied the commit,
\* and only then session 2 removed its sphere and committed: the chunk that
\* session 2 commits holds voxels of the first sphere
C14_Witness ==
    /\ op = [kind |-> "apply", session |-> 2]
    /\ calls[1] = <<EditSingle>>
    /\ calls[2] = <<EditSingleRemove>>
    /\ chunk_map = SomeChunks
    /\ AfterOtherCommit(2, << -2, 1, 5>>)
    /\ world["e1"] # ChunkData_air
    /\ ChunkData_expand(DataFor(Len(commands), << -2, 1, 5>>)) # ChunkData_expand(world["e1"])
    /\ \E i \in 1..CHUNK_VOXELS :
           /\ ChunkData_expand(world["e1"])[i] = Voxel_new(0, MAX_VALUE)
           /\ ChunkData_expand(DataFor(Len(commands), << -2, 1, 5>>))[i] = Voxel_new(0, MAX_VALUE)

(***************************************************************************)
(* The editing session: one buffer per chunk                               *)
(***************************************************************************)
\* the calls of session s whose voxel box covers the chunk at cp
CallsCovering(s, cp) ==
    {n \in 1..Len(calls[s]) : \A a \in 1..3 : cp[a] \in BoxChunkCoords(calls[s][n], a)}

\* C15: in every session the touched map and the buffer list have the same
\* size and the indices of the map are exactly 0..len-1, each once; the
\* callback was invoked exactly once for each touched chunk that the chunk
\* map listed and never for another; a chunk that the map did not list
\* started as air; and the buffer of a chunk that several calls covered holds
\* the blend of each later call over the values the earlier ones wrote.
C15_MaterializedOnce ==
    \A s \in DOMAIN calls :
        /\ Len(chunks[s]) = Cardinality(DOMAIN modified[s])
        /\ {modified[s][cp].index : cp \in DOMAIN modified[s]} = 0..(Len(chunks[s]) - 1)
        /\ \A i, j \in 1..Len(getter[s]) : getter[s][i] = getter[s][j] => i = j
        /\ {positions[getter[s][j]] : j \in 1..Len(getter[s])}
               = {cp \in DOMAIN modified[s] : cp \in DOMAIN chunk_map}
        /\ \A cp \in DOMAIN modified[s] :
               Cardinality(CallsCovering(s, cp)) >= 2 \/ cp \notin DOMAIN chunk_map =>
                   \A init \in {InitialBuffer(cp)} :
                   \A buf \in {chunks[s][modified[s][cp].index + 1]} :
                   \A cs \in {calls[s]} :
                       \A i \in 1..CHUNK_VOXELS : buf[i] = VoxelAfter(cs, Len(cs), init, cp, i)

\* the two calls of test_modify_single_chunk on a chunk that exists: one
\* buffer, one call of the callback, and a voxel that the first sphere made
\* solid and the second one left alone next to one that it removed again
C15_Witness ==
    /\ calls[1] = <<EditSingle, EditSingleRemove>>
    /\ chunk_map = SomeChunks
    /\ getter[1] = <<"e1">>
    /\ modified[1] = (<< -2, 1, 5>> :> [entity |-> "e1", index |-> 0])
    /\ Len(chunks[1]) = 1
    /\ Voxel_value(chunks[1][1][Linearize(<<3, 8, 10>>)]) > MAX_VALUE \div 2
    /\ chunks[1][1][Linearize(<<9, 7, 7>>)] = AIR

(***************************************************************************)
(* The commit is the session's only effect on the store                    *)
(***************************************************************************)
\* what a session can be observed through: the chunk map, the components of
\* the chunk entities, and the commands queued for the world
StoredState == <<chunk_map, world, positions, commands, applied>>

\* C11: a call of apply_sdf, and the drop of a session, leave the chunk map,
\* the stored ChunkData of every chunk and the queue of commands as they were:
\* only ChunkModifier::apply (and the world applying what it queued) changes
\* them, so a session dropped before apply leaves no trace.
C11_CommitOnlySideEffect ==
    [][op'.kind \in {"apply_sdf", "discard"} => UNCHANGED StoredState]_vars

\* a session that made calls on the border of two stored chunks and was
\* dropped without a commit: the store is the initial one
C11_Witness ==
    /\ op.kind = "discard"
    /\ commands = <<>>
    /\ chunk_map = SomeChunks
    /\ world = SomeWorld
    /\ modified[1] = <<>>
    /\ chunks[1] = <<>>

(***************************************************************************)
(* The grids of adjacent chunks at their shared face                       *)
(***************************************************************************)
\* the chunk after A on axis a
NextOn(A, a) == [A EXCEPT ![a] = A[a] + 1]

\* grid coordinates with v on axis a and u, w on the other two axes
OnAxis(a, v, u, w) == IF a = 1 THEN <<v, u, w>> ELSE IF a = 2 THEN <<u, v, w>> ELSE <<u, w, v>>

\* both chunks have a grid, built from the same stored data
BothBuilt(A, B) ==
    /\ A \in DOMAIN mesh /\ B \in DOMAIN mesh
    /\ mesh[A] # Panicked /\ mesh[B] # Panicked

\* C12: for chunks A and B = A + 1 on an axis, both in range and both with a
\* grid built from the same stored data, the grid of A at the coordinates
\* side and side + 1 of that axis equals the grid of B at the coordinates 0
\* and 1, at each of the (side + 2)^2 positions of the other two axes.
C12_SeamConsistency ==
    \A A \in DOMAIN mesh : \A a \in 1..3 :
        BothBuilt(A, NextOn(A, a)) =>
            \A gA \in {mesh[A]} : \A gB \in {mesh[NextOn(A, a)]} :
                \A k \in 0..1 : \A u \in 0..(BOUNDS - 1) : \A w \in 0..(BOUNDS - 1) :
                    gA[GridIndex(OnAxis(a, CHUNK_SIDES + k, u, w))]
                        = gB[GridIndex(OnAxis(a, k, u, w))]

\* the border edit of the tests was committed on an empty store and applied,
\* the grids of the two chunks it touched were built, and at the shared face
\* the two layers hold different values of the sphere
C12_Witness ==
    /\ applied = 1
    /\ BothBuilt(<< -1, 0, 0>>, <<0, 0, 0>>)
    /\ Cardinality(DOMAIN chunk_map) = 2
    /\ Voxel_value(mesh[<< -1, 0, 0>>][GridIndex(<<CHUNK_SIDES, 13, 13>>)]) > MAX_VALUE \div 2
    /\ mesh[<< -1, 0, 0>>][GridIndex(<<CHUNK_SIDES + 1, 13, 13>>)]
           # mesh[<< -1, 0, 0>>][GridIndex(<<CHUNK_SIDES, 13, 13>>)]
    /\ mesh[<<0, 0, 0>>][GridIndex(<<1, 12, 12>>)]
           # mesh[<<0, 0, 0>>][GridIndex(<<0, 12, 12>>)]

(***************************************************************************)
(* The neighbours of a chunk at the end of the coordinate range            *)
(***************************************************************************)
\* the sample at the grid coordinates xyz of chunk pos belongs to a neighbour
\* whose coordinate lies outside i8 on some axis
OutOfRangeNeighbor(pos, xyz) ==
    \E a \in 1..3 : (pos[a] + NeighborIndex(xyz[a])) - 1 \notin I8_MIN..I8_MAX

\* C13: generate_chunk ends without an error for every chunk, also one with a
\* coordinate -128 or 127, and every sample of its grid that belongs to a
\* neighbour outside the range of i8 reads as air.
C13_OutOfRangeNeighborIsAir ==
    \A pos \in DOMAIN mesh :
        /\ mesh[pos] # Panicked
        /\ \A g \in {mesh[pos]} : \A j \in 1..Len(g) :
               OutOfRangeNeighbor(pos, GridCoords(j - 1)) => g[j] = AIR

\* generate_chunk of the chunk (-128, -128, -128) in a build without overflow
\* checks: the corner sample of its grid, which belongs to the neighbour
\* (-129, -129, -129), holds the last voxel of chunk (127, 127, 127)
C13_Witness ==
    /\ chunk_map = SomeChunks
    /\ world = SomeWorld
    /\ <<I8_MIN, I8_MIN, I8_MIN>> \in DOMAIN mesh
    /\ mesh[<<I8_MIN, I8_MIN, I8_MIN>>] # Panicked
    /\ OutOfRangeNeighbor(<<I8_MIN, I8_MIN, I8_MIN>>, <<0, 0, 0>>)
    /\ mesh[<<I8_MIN, I8_MIN, I8_MIN>>][GridIndex(<<0, 0, 0>>)] = SOLID
    /\ mesh[<<I8_MIN, I8_MIN, I8_MIN>>][GridIndex(<<0, 0, 0>>)]
           = ChunkData_expand(world[chunk_map[<<I8_MAX, I8_MAX, I8_MAX>>]])[CHUNK_VOXELS]

\* generate_chunk of the chunk (127, 127, 127) in a build with overflow
\* checks: the sum for the first neighbour past 127 panics
PanicAtRangeEnd ==
    /\ <<I8_MAX, I8_MAX, I8_MAX>> \in DOMAIN mesh
    /\ mesh[<<I8_MAX, I8_MAX, I8_MAX>>] = Panicked

\* without the sums that leave i8 every grid is built, and the samples of
\* the neighbours that do not exist are air
InRangeMeshing ==
    \A pos \in DOMAIN mesh :
        (\A i \in 0..(SURROUNDING - 1) : ~AddOverflows(pos, NeighborOffset(i))) =>
            /\ mesh[pos] # Panicked
            /\ \A g \in {mesh[pos]} : \A j \in 1..Len(g) :
                   ChunkPosition_add(pos, [a \in 1..3 |-> NeighborIndex(GridCoords(j - 1)[a]) - 1])
                       \notin DOMAIN chunk_map => g[j] = AIR

=============================================================================
